---- MODULE Spec2Model ----
(***************************************************************************)
(* Model of the backtester core: Engine (bar loop), Broker (fills),        *)
(* Portfolio / Position (ledger), RiskManager (signal filter) and the      *)
(* Strategy interface with its SmaCrossover implementation.                *)
(*                                                                         *)
(* Money is counted in integer ticks of 10^-4 (the precision of the        *)
(* broker's round(x, 4)); a bar price is a positive number of ticks.       *)
(* Fractions (slippage_pct, commission_per_share, max_position_pct,        *)
(* max_drawdown_pct, avg_cost) are exact rationals [num, den]; binary      *)
(* floating-point error is not modelled.  A date is the ordinal of the     *)
(* bar in the input (1, 2, ...), so dates are strictly increasing.         *)
(* Bar.high, Bar.low and Bar.volume are never read by the core and are     *)
(* left out of the bar record.                                             *)
(***************************************************************************)
EXTENDS Integers, Sequences, FiniteSets

VARIABLES
    strategy,         \* Strategy object: ticker, _bars (and SmaCrossover's fields)
    portfolio,        \* Portfolio object: initial_cash, cash, positions, fills, equity_curve
    broker,           \* Broker object: slippage_pct, commission_per_share
    risk_manager,     \* RiskManager object (or None): limits, _peak_equity, _stopped_out
    pending_signals,  \* Engine._pending_signals
    pc,               \* position of Engine.run inside the bar loop
    bar,              \* loop variable of Engine.run: the current Bar (None before the first)
    signal,           \* local variable of Engine.run: the Signal of this bar (or None)
    last_check,       \* arguments and return value of the latest RiskManager.check call
    stdout,           \* number of lines printed by RiskManager.check
    enqueued,         \* number of signals Engine.run has appended to _pending_signals
    returned          \* the latest direct call of a Broker or Portfolio method, with its value

vars == <<strategy, portfolio, broker, risk_manager, pending_signals,
          pc, bar, signal, last_check, stdout, enqueued, returned>>

(***************************************************************************)
(* Bounds and input sets                                                   *)
(***************************************************************************)
MaxBars == 3          \* longest input of a run with an arbitrary Strategy
MaxBarsSma == 5       \* longest input of a run with SmaCrossover
MaxBarsTrend == 7     \* longest input of a run over trending prices
MaxRows == 3          \* rows of a short input frame of _validate
GapRows == 7          \* rows of an input frame of _validate with gaps in Close
MaxPrinted == 2       \* lines a directly driven RiskManager prints before the calls stop
MaxFills == 2         \* process_fill calls on a directly driven Portfolio
MaxPoints == 1        \* record_equity calls on a directly driven Portfolio
MaxUpdates == 4       \* fills applied to a directly driven Position

Prices == {1, 3}                       \* Open and Close values of an input row
Quantities == {3, 8}                   \* Signal.quantity values
Sides == {"BUY", "SELL"}
Tickers == {"A", "B"}
InitialCash == {20}
Fraction(n, d) == [num |-> n, den |-> d]
Slippages == {Fraction(0, 1), Fraction(1, 4)}
Commissions == {Fraction(0, 1), Fraction(1, 2)}
RiskLimits == {[max_position_pct |-> Fraction(1, 2), max_drawdown_pct |-> Fraction(1, 5)],
               [max_position_pct |-> Fraction(1, 1), max_drawdown_pct |-> Fraction(1, 10)]}
\* inputs of the direct calls of RiskManager.check and of the Portfolio methods
CheckLimits == RiskLimits \cup
    {[max_position_pct |-> Fraction(1, 10), max_drawdown_pct |-> Fraction(1, 50)]}
CheckEquities == {0, 7, 80, 90, 95, 100}
CheckPrices == {3, 30}
FillCommissions == {0, 2}
\* inputs of the fills applied to one Position
UpdateQuantities == {1, 2, 3}
UpdateCommissions == {2}
\* inputs of the direct calls of Broker.execute: the default slippage of 0.001
\* and the default commission of 50 ticks a share among them
BrokerSlippages == {Fraction(0, 1), Fraction(1, 1000), Fraction(1, 4)}
BrokerCommissions == {Fraction(0, 1), Fraction(1, 20), Fraction(1, 2), Fraction(50, 1)}
BrokerOpens == {1, 3, 400, 1000, 1500}
BrokerQuantities == {1, 3, 10}
\* inputs of the runs over trending prices
TrendOpens == {2}
TrendCloses == 1..4
TrendQuantities == {3}
\* index labels of the short input frames of _validate
DataDates == 1..3
SmaPeriods == {[fast_period |-> 1, slow_period |-> 2],
               [fast_period |-> 2, slow_period |-> 3],
               [fast_period |-> 1, slow_period |-> 3]}

None == [none |-> TRUE]

(***************************************************************************)
(* Arithmetic helpers                                                      *)
(***************************************************************************)
Max(a, b) == IF a >= b THEN a ELSE b
Min(a, b) == IF a <= b THEN a ELSE b
Abs(a) == IF a >= 0 THEN a ELSE -a

RECURSIVE Gcd(_, _)
Gcd(a, b) == IF b = 0 THEN a ELSE Gcd(b, a % b)

\* the rational n/d (d > 0) in lowest terms
Rational(n, d) ==
    LET g == Gcd(Abs(n), d)
    IN  IF n = 0 THEN Fraction(0, 1) ELSE Fraction(n \div g, d \div g)

\* Python's round(): n/d (n >= 0, d > 0) to the nearest integer, ties to even
Round(n, d) ==
    LET q == n \div d
        r == n % d
    IN  IF 2 * r < d THEN q
        ELSE IF 2 * r > d THEN q + 1
        ELSE IF q % 2 = 0 THEN q ELSE q + 1

RECURSIVE Sum(_)
Sum(s) == IF s = <<>> THEN 0 ELSE Head(s) + Sum(Tail(s))

\* pandas s.iloc[-n:] for n >= 1: the last n elements, all of s when it is shorter
LastN(s, n) == SubSeq(s, Len(s) - Min(n, Len(s)) + 1, Len(s))

\* pandas s.iloc[:-1]
AllButLast(s) == SubSeq(s, 1, Len(s) - 1)

\* mean(a) < mean(b) and mean(a) <= mean(b) for non-empty a, b
MeanLess(a, b) == Sum(a) * Len(b) < Sum(b) * Len(a)
MeanLeq(a, b) == Sum(a) * Len(b) <= Sum(b) * Len(a)

(***************************************************************************)
(* models.py: the immutable records                                        *)
(***************************************************************************)
Bar(date, open, close) == [date |-> date, open |-> open, close |-> close]

Signal(date, ticker, side, quantity) ==
    [date |-> date, ticker |-> ticker, side |-> side, quantity |-> quantity]

Order(date, ticker, side, quantity) ==
    [date |-> date, ticker |-> ticker, side |-> side, quantity |-> quantity,
     order_type |-> "MARKET"]

Fill(date, ticker, side, quantity, fill_price, commission) ==
    [date |-> date, ticker |-> ticker, side |-> side, quantity |-> quantity,
     fill_price |-> fill_price, commission |-> commission]

Position(ticker) == [ticker |-> ticker, quantity |-> 0, avg_cost |-> Fraction(0, 1)]

(***************************************************************************)
(* models.py: Position.update.  Returns the new position and the signed    *)
(* cash delta.                                                             *)
(***************************************************************************)
\* update whose SELL branch adds the commission to the proceeds
update_sell_adds_commission(position, fill) ==
    IF fill.side = "BUY"
    THEN LET total_cost_num == position.avg_cost.num * position.quantity
                               + fill.fill_price * fill.quantity * position.avg_cost.den
             quantity == position.quantity + fill.quantity
         IN  [position |-> [position EXCEPT
                  !.quantity = quantity,
                  !.avg_cost = IF quantity > 0
                               THEN Rational(total_cost_num, position.avg_cost.den * quantity)
                               ELSE Fraction(0, 1)],
              cash_delta |-> -(fill.fill_price * fill.quantity + fill.commission)]
    ELSE LET quantity == position.quantity - fill.quantity
         IN  [position |-> [position EXCEPT
                  !.quantity = quantity,
                  !.avg_cost = IF quantity = 0 THEN Fraction(0, 1) ELSE @],
              cash_delta |-> fill.fill_price * fill.quantity + fill.commission]

\* update whose SELL branch keeps avg_cost when the position becomes flat
update_sell_keeps_cost(position, fill) ==
    IF fill.side = "BUY"
    THEN LET total_cost_num == position.avg_cost.num * position.quantity
                               + fill.fill_price * fill.quantity * position.avg_cost.den
             quantity == position.quantity + fill.quantity
         IN  [position |-> [position EXCEPT
                  !.quantity = quantity,
                  !.avg_cost = IF quantity > 0
                               THEN Rational(total_cost_num, position.avg_cost.den * quantity)
                               ELSE Fraction(0, 1)],
              cash_delta |-> -(fill.fill_price * fill.quantity + fill.commission)]
    ELSE LET quantity == position.quantity - fill.quantity
         IN  [position |-> [position EXCEPT !.quantity = quantity],
              cash_delta |-> fill.fill_price * fill.quantity - fill.commission]

\* update whose SELL branch stops at a quantity of 0
update_sell_clamps(position, fill) ==
    IF fill.side = "BUY"
    THEN LET total_cost_num == position.avg_cost.num * position.quantity
                               + fill.fill_price * fill.quantity * position.avg_cost.den
             quantity == position.quantity + fill.quantity
         IN  [position |-> [position EXCEPT
                  !.quantity = quantity,
                  !.avg_cost = IF quantity > 0
                               THEN Rational(total_cost_num, position.avg_cost.den * quantity)
                               ELSE Fraction(0, 1)],
              cash_delta |-> -(fill.fill_price * fill.quantity + fill.commission)]
    ELSE LET quantity == Max(position.quantity - fill.quantity, 0)
         IN  [position |-> [position EXCEPT
                  !.quantity = quantity,
                  !.avg_cost = IF quantity = 0 THEN Fraction(0, 1) ELSE @],
              cash_delta |-> fill.fill_price * fill.quantity - fill.commission]

update(position, fill) ==
    IF fill.side = "BUY"
    THEN LET total_cost_num == position.avg_cost.num * position.quantity
                               + fill.fill_price * fill.quantity * position.avg_cost.den
             quantity == position.quantity + fill.quantity
         IN  [position |-> [position EXCEPT
                  !.quantity = quantity,
                  !.avg_cost = IF quantity > 0
                               THEN Rational(total_cost_num, position.avg_cost.den * quantity)
                               ELSE Fraction(0, 1)],
              cash_delta |-> -(fill.fill_price * fill.quantity + fill.commission)]
    ELSE LET quantity == position.quantity - fill.quantity
         IN  [position |-> [position EXCEPT
                  !.quantity = quantity,
                  !.avg_cost = IF quantity = 0 THEN Fraction(0, 1) ELSE @],
              cash_delta |-> fill.fill_price * fill.quantity - fill.commission]

(***************************************************************************)
(* broker.py: Broker.execute                                               *)
(***************************************************************************)
\* execute whose SELL price slips upwards like a BUY
execute_sell_slips_up(b, order, a_bar) ==
    LET base_price == a_bar.open
        fill_price == Round(base_price * (b.slippage_pct.den + b.slippage_pct.num),
                            b.slippage_pct.den)
        commission == Round(b.commission_per_share.num * order.quantity,
                            b.commission_per_share.den)
    IN  Fill(order.date, order.ticker, order.side, order.quantity, fill_price, commission)

\* execute that pays the commission back on a SELL
execute_sell_rebate(b, order, a_bar) ==
    LET base_price == a_bar.open
        fill_price == IF order.side = "BUY"
                      THEN Round(base_price * (b.slippage_pct.den + b.slippage_pct.num),
                                 b.slippage_pct.den)
                      ELSE Round(base_price * (b.slippage_pct.den - b.slippage_pct.num),
                                 b.slippage_pct.den)
        commission == Round(b.commission_per_share.num * order.quantity,
                            b.commission_per_share.den)
    IN  Fill(order.date, order.ticker, order.side, order.quantity, fill_price,
             IF order.side = "BUY" THEN commission ELSE -commission)

execute(b, order, a_bar) ==
    LET base_price == a_bar.open
        fill_price == IF order.side = "BUY"
                      THEN Round(base_price * (b.slippage_pct.den + b.slippage_pct.num),
                                 b.slippage_pct.den)
                      ELSE Round(base_price * (b.slippage_pct.den - b.slippage_pct.num),
                                 b.slippage_pct.den)
        commission == Round(b.commission_per_share.num * order.quantity,
                            b.commission_per_share.den)
    IN  Fill(order.date, order.ticker, order.side, order.quantity, fill_price, commission)

(***************************************************************************)
(* portfolio.py: Portfolio                                                 *)
(***************************************************************************)
Portfolio(initial_cash) ==
    [initial_cash |-> initial_cash, cash |-> initial_cash, positions |-> <<>>,
     fills |-> <<>>, equity_curve |-> <<>>]

process_fill(p, fill) ==
    LET known == fill.ticker \in DOMAIN p.positions
        old == IF known THEN p.positions[fill.ticker] ELSE Position(fill.ticker)
        upd == update(old, fill)
    IN  [p EXCEPT
            !.fills = Append(@, fill),
            !.positions = [t \in DOMAIN p.positions \cup {fill.ticker} |->
                              IF t = fill.ticker THEN upd.position ELSE p.positions[t]],
            !.cash = @ + upd.cash_delta]

\* sum of position.quantity * prices[ticker] over the tickers in ts
RECURSIVE HoldingsValue(_, _, _)
HoldingsValue(positions, prices, ts) ==
    IF ts = {} THEN 0
    ELSE LET t == CHOOSE x \in ts : TRUE
         IN  (IF positions[t].quantity > 0 /\ t \in DOMAIN prices
              THEN positions[t].quantity * prices[t] ELSE 0)
             + HoldingsValue(positions, prices, ts \ {t})

\* record_equity that records a point only while something is held
record_equity_when_holding(p, date, prices) ==
    LET holdings_value == HoldingsValue(p.positions, prices, DOMAIN p.positions)
    IN  IF holdings_value = 0 THEN p
        ELSE [p EXCEPT !.equity_curve =
                 Append(@, [date |-> date, total_equity |-> p.cash + holdings_value])]

\* record_equity that leaves the holdings out of the total
record_equity_cash_only(p, date, prices) ==
    [p EXCEPT !.equity_curve = Append(@, [date |-> date, total_equity |-> p.cash])]

record_equity(p, date, prices) ==
    LET holdings_value == HoldingsValue(p.positions, prices, DOMAIN p.positions)
        total_equity == p.cash + holdings_value
    IN  [p EXCEPT !.equity_curve =
            Append(@, [date |-> date, total_equity |-> total_equity])]

\* trade_count that counts the round trips, one for each SELL
trade_count_round_trips(p) ==
    Cardinality({k \in 1..Len(p.fills) : p.fills[k].side = "SELL"})

trade_count(p) == Len(p.fills)

\* total_return as the exact rational (final - initial_cash) / initial_cash
total_return(p) ==
    IF p.equity_curve = <<>> THEN Fraction(0, 1)
    ELSE LET final == p.equity_curve[Len(p.equity_curve)].total_equity
         IN  Rational(final - p.initial_cash, p.initial_cash)

(***************************************************************************)
(* risk.py: RiskManager                                                    *)
(***************************************************************************)
RiskManager(max_position_pct, max_drawdown_pct) ==
    [max_position_pct |-> max_position_pct, max_drawdown_pct |-> max_drawdown_pct,
     peak_equity |-> 0, stopped_out |-> FALSE]

\* the recovery line of the drawdown stop, 0.95 of the peak
RecoveryPct == Fraction(19, 20)

\* the drawdown test with > in place of >=
BreachStrict(rm, peak_equity, equity) ==
    /\ peak_equity > 0
    /\ (peak_equity - equity) * rm.max_drawdown_pct.den
          > rm.max_drawdown_pct.num * peak_equity

\* the drawdown test of check: (peak - equity) / peak >= max_drawdown_pct
Breach(rm, peak_equity, equity) ==
    /\ peak_equity > 0
    /\ (peak_equity - equity) * rm.max_drawdown_pct.den
          >= rm.max_drawdown_pct.num * peak_equity

\* the recovery test of check: equity >= peak * 0.95
Recovered(peak_equity, equity) ==
    equity * RecoveryPct.den >= peak_equity * RecoveryPct.num

\* the size test of check: quantity * price > equity * max_position_pct
Oversized(rm, quantity, equity, price) ==
    quantity * price * rm.max_position_pct.den > equity * rm.max_position_pct.num

\* max_shares rounded up instead of down
MaxSharesCeiling(rm, equity, price) ==
    -((-(equity * rm.max_position_pct.num)) \div (rm.max_position_pct.den * price))

\* max_shares of check: int((equity * max_position_pct) // price)
MaxShares(rm, equity, price) ==
    (equity * rm.max_position_pct.num) \div (rm.max_position_pct.den * price)

\* check that sets the quantity to max_shares whether the signal is oversized or not
check_always_resizes(rm, a_signal, equity, price) ==
    LET peak_equity == Max(rm.peak_equity, equity)
        max_shares == MaxShares(rm, equity, price)
    IN  IF Breach(rm, peak_equity, equity)
        THEN [rm |-> [rm EXCEPT !.peak_equity = peak_equity, !.stopped_out = TRUE],
              result |-> None,
              printed |-> ~rm.stopped_out]
        ELSE [rm |-> [rm EXCEPT !.peak_equity = peak_equity,
                                !.stopped_out = IF @ /\ Recovered(peak_equity, equity)
                                                THEN FALSE ELSE @],
              result |-> IF max_shares <= 0 THEN None
                         ELSE Signal(a_signal.date, a_signal.ticker,
                                     a_signal.side, max_shares),
              printed |-> FALSE]

\* RiskManager.check: the manager after the call, the returned Signal (or
\* None) and whether the call printed the "Drawdown limit hit" line
check(rm, a_signal, equity, price) ==
    LET peak_equity == Max(rm.peak_equity, equity)
        max_shares == MaxShares(rm, equity, price)
    IN  IF Breach(rm, peak_equity, equity)
        THEN [rm |-> [rm EXCEPT !.peak_equity = peak_equity, !.stopped_out = TRUE],
              result |-> None,
              printed |-> ~rm.stopped_out]
        ELSE [rm |-> [rm EXCEPT !.peak_equity = peak_equity,
                                !.stopped_out = IF @ /\ Recovered(peak_equity, equity)
                                                THEN FALSE ELSE @],
              result |-> IF Oversized(rm, a_signal.quantity, equity, price)
                         THEN IF max_shares <= 0 THEN None
                              ELSE Signal(a_signal.date, a_signal.ticker,
                                          a_signal.side, max_shares)
                         ELSE a_signal,
              printed |-> FALSE]

(***************************************************************************)
(* strategy.py: Strategy, and strategies/sma_cross.py: SmaCrossover        *)
(***************************************************************************)
Strategy(ticker) == [ticker |-> ticker, bars |-> <<>>]

SmaCrossover(ticker, fast_period, slow_period, quantity) ==
    [ticker |-> ticker, bars |-> <<>>, fast_period |-> fast_period,
     slow_period |-> slow_period, quantity |-> quantity, in_position |-> FALSE]

push_bar(st, a_bar) == [st EXCEPT !.bars = Append(@, a_bar)]

closes(st) == [k \in 1..Len(st.bars) |-> st.bars[k].close]

\* on_bar whose warm-up waits for fast_period bars instead of slow_period
on_bar_warmup_fast(st, a_bar) ==
    LET cs == closes(st)
        prev_closes == AllButLast(cs)
        fast == LastN(cs, st.fast_period)
        slow == LastN(cs, st.slow_period)
        prev_fast == LastN(prev_closes, st.fast_period)
        prev_slow == LastN(prev_closes, st.slow_period)
    IN  IF Len(st.bars) < st.fast_period
        THEN [strategy |-> st, signal |-> None]
        ELSE IF Len(prev_closes) < st.fast_period
        THEN [strategy |-> st, signal |-> None]
        ELSE IF MeanLeq(prev_fast, prev_slow) /\ MeanLess(slow, fast) /\ ~st.in_position
        THEN [strategy |-> [st EXCEPT !.in_position = TRUE],
              signal |-> Signal(a_bar.date, st.ticker, "BUY", st.quantity)]
        ELSE IF MeanLeq(prev_slow, prev_fast) /\ MeanLess(fast, slow) /\ st.in_position
        THEN [strategy |-> [st EXCEPT !.in_position = FALSE],
              signal |-> Signal(a_bar.date, st.ticker, "SELL", st.quantity)]
        ELSE [strategy |-> st, signal |-> None]

\* on_bar whose SELL test compares the means the wrong way round
on_bar_sell_above(st, a_bar) ==
    LET cs == closes(st)
        prev_closes == AllButLast(cs)
        fast == LastN(cs, st.fast_period)
        slow == LastN(cs, st.slow_period)
        prev_fast == LastN(prev_closes, st.fast_period)
        prev_slow == LastN(prev_closes, st.slow_period)
    IN  IF Len(st.bars) < st.slow_period
        THEN [strategy |-> st, signal |-> None]
        ELSE IF Len(prev_closes) < st.slow_period
        THEN [strategy |-> st, signal |-> None]
        ELSE IF MeanLeq(prev_fast, prev_slow) /\ MeanLess(slow, fast) /\ ~st.in_position
        THEN [strategy |-> [st EXCEPT !.in_position = TRUE],
              signal |-> Signal(a_bar.date, st.ticker, "BUY", st.quantity)]
        ELSE IF MeanLeq(prev_slow, prev_fast) /\ MeanLess(slow, fast) /\ st.in_position
        THEN [strategy |-> [st EXCEPT !.in_position = FALSE],
              signal |-> Signal(a_bar.date, st.ticker, "SELL", st.quantity)]
        ELSE [strategy |-> st, signal |-> None]

\* on_bar whose BUY test does not look at the in-position flag
on_bar_rebuy(st, a_bar) ==
    LET cs == closes(st)
        prev_closes == AllButLast(cs)
        fast == LastN(cs, st.fast_period)
        slow == LastN(cs, st.slow_period)
        prev_fast == LastN(prev_closes, st.fast_period)
        prev_slow == LastN(prev_closes, st.slow_period)
    IN  IF Len(st.bars) < st.slow_period
        THEN [strategy |-> st, signal |-> None]
        ELSE IF Len(prev_closes) < st.slow_period
        THEN [strategy |-> st, signal |-> None]
        ELSE IF MeanLeq(prev_fast, prev_slow) /\ MeanLess(slow, fast)
        THEN [strategy |-> [st EXCEPT !.in_position = TRUE],
              signal |-> Signal(a_bar.date, st.ticker, "BUY", st.quantity)]
        ELSE IF MeanLeq(prev_slow, prev_fast) /\ MeanLess(fast, slow) /\ st.in_position
        THEN [strategy |-> [st EXCEPT !.in_position = FALSE],
              signal |-> Signal(a_bar.date, st.ticker, "SELL", st.quantity)]
        ELSE [strategy |-> st, signal |-> None]

\* SmaCrossover.on_bar: the strategy after the call and the returned Signal (or None)
on_bar(st, a_bar) ==
    LET cs == closes(st)
        prev_closes == AllButLast(cs)
        fast == LastN(cs, st.fast_period)
        slow == LastN(cs, st.slow_period)
        prev_fast == LastN(prev_closes, st.fast_period)
        prev_slow == LastN(prev_closes, st.slow_period)
    IN  IF Len(st.bars) < st.slow_period
        THEN [strategy |-> st, signal |-> None]
        ELSE IF Len(prev_closes) < st.slow_period
        THEN [strategy |-> st, signal |-> None]
        ELSE IF MeanLeq(prev_fast, prev_slow) /\ MeanLess(slow, fast) /\ ~st.in_position
        THEN [strategy |-> [st EXCEPT !.in_position = TRUE],
              signal |-> Signal(a_bar.date, st.ticker, "BUY", st.quantity)]
        ELSE IF MeanLeq(prev_slow, prev_fast) /\ MeanLess(fast, slow) /\ st.in_position
        THEN [strategy |-> [st EXCEPT !.in_position = FALSE],
              signal |-> Signal(a_bar.date, st.ticker, "SELL", st.quantity)]
        ELSE [strategy |-> st, signal |-> None]

(***************************************************************************)
(* data.py: DataFeed._validate.  A frame is a sequence of rows; a row has  *)
(* its index label (date), one cell for each column, and pos, its place in *)
(* the frame that was handed in.  A cell is NaN or holds a number.         *)
(***************************************************************************)
NaN == [nan |-> TRUE, v |-> 0]
Val(x) == [nan |-> FALSE, v |-> x]

Columns == {"Open", "High", "Low", "Close", "Volume"}
price_cols == {"Open", "High", "Low", "Close"}

\* the rows of df at the places in keep, in the order of df
RECURSIVE Rows(_, _, _)
Rows(df, keep, k) ==
    IF k > Len(df) THEN <<>>
    ELSE (IF k \in keep THEN <<df[k]>> ELSE <<>>) \o Rows(df, keep, k + 1)

\* df.sort_index(): the rows in date order.  The default kind, quicksort, is
\* not stable, so rows of equal date come out in any order
RECURSIVE sort_index(_)
sort_index(df) ==
    IF df = <<>> THEN {<<>>}
    ELSE LET first == {k \in 1..Len(df) : \A j \in 1..Len(df) : df[k].date <= df[j].date}
         IN  UNION {{<<df[k]>> \o rest : rest \in sort_index(Rows(df, (1..Len(df)) \ {k}, 1))} :
                    k \in first}

\* df[~df.index.duplicated(keep="first")]
drop_duplicated(df) ==
    Rows(df, {k \in 1..Len(df) : \A j \in 1..(k - 1) : df[j].date # df[k].date}, 1)

\* the limit of the forward fill
FfillLimit == 5

\* df.ffill(limit): a NaN cell takes the last valid value above it in its
\* column when that value is at most limit rows above
ffill(df, limit) ==
    [k \in 1..Len(df) |->
        [df[k] EXCEPT !.cells = [c \in Columns |->
            LET above == {j \in 1..(k - 1) :
                             /\ ~df[j].cells[c].nan
                             /\ k - j <= limit
                             /\ \A i \in (j + 1)..(k - 1) : df[i].cells[c].nan}
            IN  IF df[k].cells[c].nan /\ above # {}
                THEN df[CHOOSE j \in above : TRUE].cells[c]
                ELSE df[k].cells[c]]]]

\* df.dropna()
dropna(df) == Rows(df, {k \in 1..Len(df) : \A c \in Columns : ~df[k].cells[c].nan}, 1)

\* the price filter that keeps the value 0
positive_or_zero(df) ==
    Rows(df, {k \in 1..Len(df) : \A c \in price_cols : df[k].cells[c].v >= 0}, 1)

\* the loop over price_cols: df = df[df[col] > 0] for each of them, on a
\* frame without NaN
positive(df) ==
    Rows(df, {k \in 1..Len(df) : \A c \in price_cols : df[k].cells[c].v > 0}, 1)

\* _validate after the sort: the frame returned for a sorted frame
validate(sorted) == positive(dropna(ffill(drop_duplicated(sorted), FfillLimit)))

(***************************************************************************)
(* engine.py: Engine                                                       *)
(***************************************************************************)
\* PendingOrder with the order dated by its signal instead of the executing bar
PendingOrderSignalDate(a_signal, a_bar) ==
    Order(a_signal.date, a_signal.ticker, a_signal.side, a_signal.quantity)

\* the Order that _execute_pending places for a pending signal
PendingOrder(a_signal, a_bar) ==
    Order(a_bar.date, a_signal.ticker, a_signal.side, a_signal.quantity)

\* execute_pending that rejects a BUY order the cash does not cover
RECURSIVE execute_pending_affordable(_, _, _, _)
execute_pending_affordable(p, b, signals, a_bar) ==
    IF signals = <<>> THEN p
    ELSE LET fill == execute(b, PendingOrder(Head(signals), a_bar), a_bar)
             cost == fill.fill_price * fill.quantity + fill.commission
         IN  IF fill.side = "BUY" /\ cost > p.cash
             THEN execute_pending_affordable(p, b, Tail(signals), a_bar)
             ELSE execute_pending_affordable(process_fill(p, fill), b, Tail(signals), a_bar)

\* execute_pending that places the order of each pending signal twice
RECURSIVE execute_pending_twice(_, _, _, _)
execute_pending_twice(p, b, signals, a_bar) ==
    IF signals = <<>> THEN p
    ELSE LET fill == execute(b, PendingOrder(Head(signals), a_bar), a_bar)
         IN  execute_pending_twice(process_fill(process_fill(p, fill), fill),
                                   b, Tail(signals), a_bar)

\* the loop of Engine._execute_pending: every pending signal, in order,
\* becomes an order, a fill of the broker and a process_fill
RECURSIVE execute_pending(_, _, _, _)
execute_pending(p, b, signals, a_bar) ==
    IF signals = <<>> THEN p
    ELSE execute_pending(process_fill(p, execute(b, PendingOrder(Head(signals), a_bar), a_bar)),
                         b, Tail(signals), a_bar)

\* rows of the input frame that the loop has fetched so far
Fetched == IF bar = None THEN 0 ELSE bar.date

\* the head of the loop body without the clear() of the queue
ExecutePendingFromNoClear(max_bars, opens, closings) ==
    /\ pc = "fetch"
    /\ Fetched < max_bars
    /\ \E open \in opens, close \in closings :
          LET next_bar == Bar(Fetched + 1, open, close)
          IN  /\ bar' = next_bar
              /\ portfolio' = execute_pending(portfolio, broker, pending_signals, next_bar)
    /\ pending_signals' = pending_signals
    /\ pc' = "on_bar"
    /\ UNCHANGED <<strategy, broker, risk_manager, signal, last_check, stdout, enqueued, returned>>

\* Engine.run, head of the loop body: fetch the next row as a Bar and
\* execute the orders queued on the previous bar against it; the row's Open
\* and Close are drawn from the given sets
ExecutePendingFrom(max_bars, opens, closings) ==
    /\ pc = "fetch"
    /\ Fetched < max_bars
    /\ \E open \in opens, close \in closings :
          LET next_bar == Bar(Fetched + 1, open, close)
          IN  /\ bar' = next_bar
              /\ portfolio' = execute_pending(portfolio, broker, pending_signals, next_bar)
    /\ pending_signals' = <<>>
    /\ pc' = "on_bar"
    /\ UNCHANGED <<strategy, broker, risk_manager, signal, last_check, stdout, enqueued, returned>>

ExecutePending(max_bars) == ExecutePendingFrom(max_bars, Prices, Prices)

\* Engine.run: strategy._push_bar(bar); signal = strategy.on_bar(bar), for an
\* arbitrary implementation of the abstract Strategy.on_bar
OnBar ==
    /\ pc = "on_bar"
    /\ strategy' = push_bar(strategy, bar)
    /\ \E s \in {None} \cup {Signal(bar.date, strategy.ticker, side, q) :
                                side \in Sides, q \in Quantities} :
          signal' = s
    /\ pc' = "risk"
    /\ UNCHANGED <<portfolio, broker, risk_manager, pending_signals, bar, last_check, stdout,
                   enqueued, returned>>

\* the same step with SmaCrossover.on_bar
OnBarSma ==
    /\ pc = "on_bar"
    /\ LET r == on_bar(push_bar(strategy, bar), bar)
       IN  /\ strategy' = r.strategy
           /\ signal' = r.signal
    /\ pc' = "risk"
    /\ UNCHANGED <<portfolio, broker, risk_manager, pending_signals, bar, last_check, stdout,
                   enqueued, returned>>

\* the risk filter applied to signals of either side
FilteredAnySide(rm, a_signal) == rm # None

\* Engine.run: which signals go through the risk filter
Filtered(rm, a_signal) == rm # None /\ a_signal.side = "BUY"

\* RiskFilter that enqueues the strategy's signal when check vetoes it
RiskFilterEnqueuesVetoed ==
    /\ pc = "risk"
    /\ IF signal # None /\ Filtered(risk_manager, signal)
       THEN LET r == check(risk_manager, signal, portfolio.cash, bar.close)
            IN  /\ risk_manager' = r.rm
                /\ signal' = r.result
                /\ last_check' = [signal |-> signal, equity |-> portfolio.cash,
                                  price |-> bar.close, result |-> r.result]
                /\ stdout' = stdout + (IF r.printed THEN 1 ELSE 0)
                /\ pending_signals' = IF r.result # None
                                      THEN Append(pending_signals, r.result)
                                      ELSE Append(pending_signals, signal)
       ELSE /\ pending_signals' = IF signal # None
                                  THEN Append(pending_signals, signal)
                                  ELSE pending_signals
            /\ UNCHANGED <<risk_manager, signal, last_check, stdout>>
    /\ enqueued' = IF pending_signals' # pending_signals THEN enqueued + 1 ELSE enqueued
    /\ pc' = "record"
    /\ UNCHANGED <<strategy, portfolio, broker, bar, returned>>

\* RiskFilter that hands check the cash plus the holdings at the bar's close
RiskFilterOnTotalEquity ==
    /\ pc = "risk"
    /\ IF signal # None /\ Filtered(risk_manager, signal)
       THEN LET total_equity ==
                    portfolio.cash
                    + HoldingsValue(portfolio.positions,
                                    [t \in {strategy.ticker} |-> bar.close],
                                    DOMAIN portfolio.positions)
                r == check(risk_manager, signal, total_equity, bar.close)
            IN  /\ risk_manager' = r.rm
                /\ signal' = r.result
                /\ last_check' = [signal |-> signal, equity |-> total_equity,
                                  price |-> bar.close, result |-> r.result]
                /\ stdout' = stdout + (IF r.printed THEN 1 ELSE 0)
                /\ pending_signals' = IF r.result # None
                                      THEN Append(pending_signals, r.result)
                                      ELSE pending_signals
       ELSE /\ pending_signals' = IF signal # None
                                  THEN Append(pending_signals, signal)
                                  ELSE pending_signals
            /\ UNCHANGED <<risk_manager, signal, last_check, stdout>>
    /\ enqueued' = IF pending_signals' # pending_signals THEN enqueued + 1 ELSE enqueued
    /\ pc' = "record"
    /\ UNCHANGED <<strategy, portfolio, broker, bar, returned>>

\* RiskFilter that tells the strategy about a veto by clearing its flag
RiskFilterFeedsBack ==
    /\ pc = "risk"
    /\ IF signal # None /\ Filtered(risk_manager, signal)
       THEN LET r == check(risk_manager, signal, portfolio.cash, bar.close)
            IN  /\ risk_manager' = r.rm
                /\ signal' = r.result
                /\ last_check' = [signal |-> signal, equity |-> portfolio.cash,
                                  price |-> bar.close, result |-> r.result]
                /\ stdout' = stdout + (IF r.printed THEN 1 ELSE 0)
                /\ pending_signals' = IF r.result # None
                                      THEN Append(pending_signals, r.result)
                                      ELSE pending_signals
                /\ strategy' = IF r.result = None
                               THEN [strategy EXCEPT !.in_position = FALSE]
                               ELSE strategy
       ELSE /\ pending_signals' = IF signal # None
                                  THEN Append(pending_signals, signal)
                                  ELSE pending_signals
            /\ UNCHANGED <<strategy, risk_manager, signal, last_check, stdout>>
    /\ enqueued' = IF pending_signals' # pending_signals THEN enqueued + 1 ELSE enqueued
    /\ pc' = "record"
    /\ UNCHANGED <<portfolio, broker, bar, returned>>

\* Engine.run: the risk filter (BUY only, when configured) and the enqueue
RiskFilter ==
    /\ pc = "risk"
    /\ IF signal # None /\ Filtered(risk_manager, signal)
       THEN LET r == check(risk_manager, signal, portfolio.cash, bar.close)
            IN  /\ risk_manager' = r.rm
                /\ signal' = r.result
                /\ last_check' = [signal |-> signal, equity |-> portfolio.cash,
                                  price |-> bar.close, result |-> r.result]
                /\ stdout' = stdout + (IF r.printed THEN 1 ELSE 0)
                /\ pending_signals' = IF r.result # None
                                      THEN Append(pending_signals, r.result)
                                      ELSE pending_signals
       ELSE /\ pending_signals' = IF signal # None
                                  THEN Append(pending_signals, signal)
                                  ELSE pending_signals
            /\ UNCHANGED <<risk_manager, signal, last_check, stdout>>
    /\ enqueued' = IF pending_signals' # pending_signals THEN enqueued + 1 ELSE enqueued
    /\ pc' = "record"
    /\ UNCHANGED <<strategy, portfolio, broker, bar, returned>>

\* RecordEquity that first executes the queue on the bar of the signal
RecordEquitySameBar ==
    /\ pc = "record"
    /\ portfolio' = record_equity(execute_pending(portfolio, broker, pending_signals, bar),
                                  bar.date, [t \in {strategy.ticker} |-> bar.close])
    /\ pending_signals' = <<>>
    /\ pc' = "fetch"
    /\ UNCHANGED <<strategy, broker, risk_manager, bar, signal, last_check, stdout, enqueued,
                   returned>>

\* Engine.run: portfolio.record_equity at the bar's close, end of the loop body
RecordEquity ==
    /\ pc = "record"
    /\ portfolio' = record_equity(portfolio, bar.date,
                                  [t \in {strategy.ticker} |-> bar.close])
    /\ pc' = "fetch"
    /\ UNCHANGED <<strategy, broker, risk_manager, pending_signals, bar, signal,
                   last_check, stdout, enqueued, returned>>

\* Return that first fills what is left in the queue at the last bar
ReturnFlushes ==
    /\ pc = "fetch"
    /\ portfolio' = execute_pending(portfolio, broker, pending_signals, bar)
    /\ pending_signals' = <<>>
    /\ pc' = "done"
    /\ UNCHANGED <<strategy, broker, risk_manager, bar, signal, last_check, stdout,
                   enqueued, returned>>

\* Engine.run: the input is exhausted, run returns the portfolio
Return ==
    /\ pc = "fetch"
    /\ pc' = "done"
    /\ UNCHANGED <<strategy, portfolio, broker, risk_manager, pending_signals, bar,
                   signal, last_check, stdout, enqueued, returned>>

\* Engine.__init__ around a given strategy, with and without a RiskManager
EngineInit(a_strategy) ==
    /\ strategy = a_strategy
    /\ \E c \in InitialCash : portfolio = Portfolio(c)
    /\ \E s \in Slippages, c \in Commissions :
          broker = [slippage_pct |-> s, commission_per_share |-> c]
    /\ \/ risk_manager = None
       \/ \E l \in RiskLimits :
             risk_manager = RiskManager(l.max_position_pct, l.max_drawdown_pct)
    /\ pending_signals = <<>>
    /\ pc = "fetch"
    /\ bar = None
    /\ signal = None
    /\ last_check = None
    /\ stdout = 0
    /\ enqueued = 0
    /\ returned = None

Init == \E t \in {"A"} : EngineInit(Strategy(t))

Next ==
    \/ ExecutePending(MaxBars)
    \/ OnBar
    \/ RiskFilter
    \/ RecordEquity
    \/ Return

Spec == Init /\ [][Next]_vars

InitSma ==
    \E t \in {"A"}, per \in SmaPeriods, q \in Quantities :
        EngineInit(SmaCrossover(t, per.fast_period, per.slow_period, q))

NextSma ==
    \/ ExecutePending(MaxBarsSma)
    \/ OnBarSma
    \/ RiskFilter
    \/ RecordEquity
    \/ Return

SpecSma == InitSma /\ [][NextSma]_vars

(***************************************************************************)
(* Engine runs of SmaCrossover over trending input, as                     *)
(* tests/test_engine.py::_make_trending_up builds it: four close levels    *)
(* and longer inputs, one broker, with and without a RiskManager           *)
(***************************************************************************)
InitTrend ==
    /\ \E t \in {"A"}, per \in SmaPeriods, q \in TrendQuantities :
          EngineInit(SmaCrossover(t, per.fast_period, per.slow_period, q))
    /\ broker = [slippage_pct |-> Fraction(1, 4), commission_per_share |-> Fraction(1, 2)]
    /\ risk_manager # None => risk_manager.max_position_pct = Fraction(1, 2)

NextTrend ==
    \/ ExecutePendingFrom(MaxBarsTrend, TrendOpens, TrendCloses)
    \/ OnBarSma
    \/ RiskFilter
    \/ RecordEquity
    \/ Return

SpecTrend == InitTrend /\ [][NextTrend]_vars

(***************************************************************************)
(* A RiskManager driven directly, as tests/test_risk.py drives it: any     *)
(* sequence of check calls                                                 *)
(***************************************************************************)
DirectInitWith(b, rm, p) ==
    /\ strategy = Strategy("A")
    /\ portfolio = p
    /\ broker = b
    /\ risk_manager = rm
    /\ pending_signals = <<>>
    /\ pc = "direct"
    /\ bar = None
    /\ signal = None
    /\ last_check = None
    /\ stdout = 0
    /\ enqueued = 0
    /\ returned = None

DirectInit(rm, p) ==
    DirectInitWith([slippage_pct |-> Fraction(0, 1), commission_per_share |-> Fraction(0, 1)],
                   rm, p)

InitRisk ==
    \E l \in CheckLimits :
        DirectInit(RiskManager(l.max_position_pct, l.max_drawdown_pct), Portfolio(0))

Check ==
    /\ pc = "direct"
    /\ risk_manager # None
    /\ stdout < MaxPrinted
    /\ \E side \in Sides, q \in Quantities, equity \in CheckEquities, price \in CheckPrices :
          LET s == Signal(1, "A", side, q)
              r == check(risk_manager, s, equity, price)
          IN  /\ risk_manager' = r.rm
              /\ last_check' = [signal |-> s, equity |-> equity, price |-> price,
                                result |-> r.result]
              /\ stdout' = stdout + (IF r.printed THEN 1 ELSE 0)
    /\ UNCHANGED <<strategy, portfolio, broker, pending_signals, pc, bar, signal,
                   enqueued, returned>>

NextRisk == Check

SpecRisk == InitRisk /\ [][NextRisk]_vars

(***************************************************************************)
(* A Portfolio driven directly, as tests/test_engine.py drives it: any     *)
(* sequence of process_fill and record_equity calls and of reads of the    *)
(* derived views                                                           *)
(***************************************************************************)
InitPortfolio == \E c \in InitialCash : DirectInit(None, Portfolio(c))

\* a call of process_fill with a fill drawn from the given sets
ProcessFillFrom(max_fills, tickers, quantities, commissions) ==
    /\ pc = "direct"
    /\ Len(portfolio.fills) < max_fills
    /\ \E t \in tickers, side \in Sides, q \in quantities, price \in Prices,
          c \in commissions :
          portfolio' = process_fill(portfolio,
                           Fill(Len(portfolio.fills) + 1, t, side, q, price, c))
    /\ returned' = [call |-> "process_fill", value |-> None]
    /\ UNCHANGED <<strategy, broker, risk_manager, pending_signals, pc, bar, signal,
                   last_check, stdout, enqueued>>

ProcessFill == ProcessFillFrom(MaxFills, Tickers, Quantities, FillCommissions)

RecordEquityDirect ==
    /\ pc = "direct"
    /\ Len(portfolio.equity_curve) < MaxPoints
    /\ \E ts \in SUBSET Tickers, price \in Prices :
          portfolio' = record_equity(portfolio, Len(portfolio.equity_curve) + 1,
                                     [t \in ts |-> price])
    /\ returned' = [call |-> "record_equity", value |-> None]
    /\ UNCHANGED <<strategy, broker, risk_manager, pending_signals, pc, bar, signal,
                   last_check, stdout, enqueued>>

\* a read of the property Portfolio.trade_count
ReadTradeCount ==
    /\ pc = "direct"
    /\ returned' = [call |-> "trade_count", value |-> trade_count(portfolio)]
    /\ UNCHANGED <<strategy, portfolio, broker, risk_manager, pending_signals, pc, bar,
                   signal, last_check, stdout, enqueued>>

\* a read of the property Portfolio.total_return
ReadTotalReturn ==
    /\ pc = "direct"
    /\ returned' = [call |-> "total_return", value |-> total_return(portfolio)]
    /\ UNCHANGED <<strategy, portfolio, broker, risk_manager, pending_signals, pc, bar,
                   signal, last_check, stdout, enqueued>>

NextPortfolio ==
    \/ ProcessFill
    \/ RecordEquityDirect
    \/ ReadTradeCount
    \/ ReadTotalReturn

SpecPortfolio == InitPortfolio /\ [][NextPortfolio]_vars

(***************************************************************************)
(* One Position driven through process_fill, as                            *)
(* tests/test_engine.py::test_position_buy and test_position_sell drive    *)
(* Position.update: any sequence of BUY and SELL fills of one ticker       *)
(***************************************************************************)
InitPosition == \E c \in InitialCash : DirectInit(None, Portfolio(c))

NextPosition == ProcessFillFrom(MaxUpdates, {"A"}, UpdateQuantities, UpdateCommissions)

SpecPosition == InitPosition /\ [][NextPosition]_vars

(***************************************************************************)
(* A Broker driven directly, as tests/test_engine.py drives it: any        *)
(* sequence of execute calls                                               *)
(***************************************************************************)
InitBroker ==
    \E s \in BrokerSlippages, c \in BrokerCommissions :
        DirectInitWith([slippage_pct |-> s, commission_per_share |-> c], None, Portfolio(0))

Execute ==
    /\ pc = "direct"
    /\ \E side \in Sides, q \in BrokerQuantities, open \in BrokerOpens :
          LET order == Order(1, "A", side, q)
              a_bar == Bar(1, open, open)
          IN  returned' = [call |-> "execute", order |-> order, bar |-> a_bar,
                           value |-> execute(broker, order, a_bar)]
    /\ UNCHANGED <<strategy, portfolio, broker, risk_manager, pending_signals, pc, bar,
                   signal, last_check, stdout, enqueued>>

NextBroker == Execute

SpecBroker == InitBroker /\ [][NextBroker]_vars

(***************************************************************************)
(* DataFeed._validate driven directly, as tests/test_data.py drives it:    *)
(* one call on an input frame                                              *)
(***************************************************************************)
\* a frame of the given rows, each at its place
Frame(rows) ==
    [k \in 1..Len(rows) |-> [pos |-> k, date |-> rows[k].date, cells |-> rows[k].cells]]

\* a row with the same number in every column
Good(x) == [c \in Columns |-> Val(x)]

\* the cells of an input row: complete, or with one NaN, or with one
\* non-positive price
RowCells ==
    {Good(1), Good(2),
     [Good(1) EXCEPT !["Close"] = NaN], [Good(2) EXCEPT !["Volume"] = NaN],
     [Good(1) EXCEPT !["Open"] = Val(0)], [Good(2) EXCEPT !["Low"] = Val(-1)]}

\* short frames in any order of dates, with repeated dates
ShortFrames ==
    {Frame(rows) : rows \in UNION {[1..n -> [date : DataDates, cells : RowCells]] :
                                      n \in 0..MaxRows}}

\* frames of GapRows rows in descending order of date, Close missing in any
\* of them
GapFrames ==
    {Frame([k \in 1..GapRows |->
               [date |-> GapRows + 1 - k,
                cells |-> [Good(1) EXCEPT !["Close"] = IF k \in gaps THEN NaN ELSE Val(2)]]]) :
        gaps \in SUBSET (1..GapRows)}

InputFrames == ShortFrames \cup GapFrames

InitData == DirectInit(None, Portfolio(0))

Validate ==
    /\ pc = "direct"
    /\ returned = None
    /\ \E df \in InputFrames :
          \E sorted \in sort_index(df) :
              returned' = [call |-> "_validate", df |-> df, sorted |-> sorted,
                           value |-> validate(sorted)]
    /\ UNCHANGED <<strategy, portfolio, broker, risk_manager, pending_signals, pc, bar,
                   signal, last_check, stdout, enqueued>>

NextData == Validate

SpecData == InitData /\ [][NextData]_vars

(***************************************************************************)
(* Properties                                                              *)
(***************************************************************************)
\* the fill price the broker's slippage model gives for an open price
SlippedPrice(side, open) ==
    LET sl == broker.slippage_pct
    IN  IF side = "BUY" THEN Round(open * (sl.den + sl.num), sl.den)
        ELSE Round(open * (sl.den - sl.num), sl.den)

\* C1: one-bar lag.  Whenever fills are added, they are the fills of the
\* signals that were pending; each pending signal was generated on the
\* previous bar T (it carries that bar's date), and its fill carries the date
\* of the bar T+1 now being processed and a price computed from that bar's
\* open, never the date of bar T.
C1_OneBarLag ==
    [][portfolio'.fills # portfolio.fills =>
          /\ Len(portfolio'.fills) = Len(portfolio.fills) + Len(pending_signals)
          /\ \A k \in 1..Len(pending_signals) :
                LET s == pending_signals[k]
                    f == portfolio'.fills[Len(portfolio.fills) + k]
                IN  /\ s.date = bar.date
                    /\ bar'.date = s.date + 1
                    /\ f.date = s.date + 1
                    /\ f.date # s.date
                    /\ f.fill_price = SlippedPrice(s.side, bar'.open)]_vars

\* a fill exists on the second or a later bar, dated with the current bar
C1_Witness ==
    /\ pc = "on_bar"
    /\ portfolio.fills # <<>>
    /\ portfolio.fills[Len(portfolio.fills)].date = bar.date
    /\ bar.date >= 2

\* C2: drawdown hysteresis as claimed.  A check call made while the filter
\* is stopped out, on a BUY signal and with equity below 0.95 of the peak,
\* returns None.
C2_Hysteresis ==
    [][(/\ risk_manager.stopped_out
        /\ last_check' # last_check
        /\ last_check'.signal.side = "BUY"
        /\ last_check'.equity * RecoveryPct.den
              < risk_manager'.peak_equity * RecoveryPct.num)
       => last_check'.result = None]_vars

\* quantity held in the strategy's ticker (0 before its first fill)
Held ==
    IF strategy.ticker \in DOMAIN portfolio.positions
    THEN portfolio.positions[strategy.ticker].quantity ELSE 0

\* C3: Position.quantity is non-negative in every state of a run driven by
\* SmaCrossover (which emits SELL only after a BUY of the same quantity),
\* with or without a RiskManager.
C3_QuantityNonNegative ==
    \A t \in DOMAIN portfolio.positions : portfolio.positions[t].quantity >= 0

\* C4: with a RiskManager configured (max_position_pct <= 1) and positive
\* prices, Portfolio.cash is never negative.
C4_CashNonNegative ==
    risk_manager # None => portfolio.cash >= 0

\* C5: the equity curve has one point per completed bar iteration, in bar
\* order.  Between iterations and after the run its length is the number of
\* bars processed; inside an iteration, whatever happened to the signal, it
\* is still one short of the current bar's ordinal until RecordEquity adds
\* the point of that bar.
C5_EquityCurveLength ==
    LET curve == portfolio.equity_curve
    IN  /\ pc \in {"fetch", "done"} =>
              /\ Len(curve) = Len(strategy.bars)
              /\ \A k \in 1..Len(curve) : curve[k].date = strategy.bars[k].date
        /\ pc \in {"on_bar", "risk", "record"} => Len(curve) = bar.date - 1

\* a finished run of three bars in which a signal was filled and another vetoed
C5_Witness ==
    /\ pc = "done"
    /\ Len(portfolio.equity_curve) = 3
    /\ portfolio.fills # <<>>
    /\ last_check # None /\ last_check.result = None

\* the drawdown test on the arguments and the peak of the latest check call
LastCheckBreached ==
    /\ risk_manager.peak_equity > 0
    /\ (risk_manager.peak_equity - last_check.equity) * risk_manager.max_drawdown_pct.den
          >= risk_manager.max_drawdown_pct.num * risk_manager.peak_equity

\* C6: position-size cap.  After a check call that the drawdown breaker did
\* not veto: if quantity*price > equity*max_position_pct the result has
\* quantity floor(equity*max_position_pct/price), or is None when that floor
\* is 0; otherwise the result is the signal itself.
C6_SizeCap ==
    (last_check # None /\ ~LastCheckBreached) =>
        LET lim == risk_manager.max_position_pct
            s == last_check.signal
            floor == (last_check.equity * lim.num) \div (lim.den * last_check.price)
        IN  IF s.quantity * last_check.price * lim.den > last_check.equity * lim.num
            THEN IF floor = 0 THEN last_check.result = None
                 ELSE /\ last_check.result # None
                      /\ last_check.result.quantity = floor
            ELSE last_check.result = s

\* a call that resized its signal to a smaller, positive quantity
C6_Witness ==
    /\ last_check # None
    /\ last_check.result # None
    /\ last_check.result.quantity < last_check.signal.quantity
    /\ last_check.result.quantity * last_check.price * risk_manager.max_position_pct.den
          < last_check.equity * risk_manager.max_position_pct.num

\* C7: cash conservation.  A step that adds a fill f appends exactly f to
\* fills, moves cash by -(fill_price*quantity + commission) for a BUY and by
\* +(fill_price*quantity - commission) for a SELL, and changes the position
\* of no ticker other than f.ticker.
C7_CashConservation ==
    [][Len(portfolio'.fills) = Len(portfolio.fills) + 1 =>
          LET f == portfolio'.fills[Len(portfolio'.fills)]
          IN  /\ portfolio'.fills = Append(portfolio.fills, f)
              /\ f.side = "BUY" =>
                    portfolio'.cash = portfolio.cash
                                         - (f.fill_price * f.quantity + f.commission)
              /\ f.side = "SELL" =>
                    portfolio'.cash = portfolio.cash
                                         + (f.fill_price * f.quantity - f.commission)
              /\ DOMAIN portfolio'.positions = DOMAIN portfolio.positions \cup {f.ticker}
              /\ \A t \in DOMAIN portfolio.positions \ {f.ticker} :
                    portfolio'.positions[t] = portfolio.positions[t]]_vars

\* a SELL with a commission applied while another ticker's position is open
C7_Witness ==
    /\ Len(portfolio.fills) = 2
    /\ portfolio.fills[1].ticker # portfolio.fills[2].ticker
    /\ portfolio.fills[2].side = "SELL"
    /\ portfolio.fills[2].commission > 0
    /\ portfolio.positions[portfolio.fills[1].ticker].quantity # 0

\* the latest point of the equity curve
LastPoint == portfolio.equity_curve[Len(portfolio.equity_curve)]

\* C8 as claimed: the point recorded for a bar equals cash plus
\* quantity * close of that bar, in every state of the ledger (cash and
\* quantity do not change between RecordEquity and the next fetch).
C8_EquityAllStates ==
    (pc = "fetch" /\ portfolio.equity_curve # <<>>) =>
        /\ LastPoint.date = bar.date
        /\ LastPoint.total_equity = portfolio.cash + Held * bar.close

\* C8 amended: the point recorded for a bar equals cash plus
\* quantity * close while the quantity is positive, and cash alone when the
\* quantity is zero or negative.
C8_EquityPoint ==
    (pc = "fetch" /\ portfolio.equity_curve # <<>>) =>
        /\ LastPoint.date = bar.date
        /\ LastPoint.total_equity =
              portfolio.cash + (IF Held > 0 THEN Held * bar.close ELSE 0)

\* a point recorded while shares are held
C8_Witness ==
    /\ pc = "fetch"
    /\ portfolio.equity_curve # <<>>
    /\ Held > 0
    /\ LastPoint.total_equity > portfolio.cash

\* C9: drawdown circuit breaker.  On every check call the peak becomes the
\* larger of the old peak and the equity passed; if the drawdown from that
\* peak is at least max_drawdown_pct the call returns None and leaves the
\* filter stopped out, whatever the signal's size; a line is printed exactly
\* on the calls that move the filter from passing to stopped out.
C9_DrawdownBreaker ==
    [][LET rm == risk_manager'
           e == last_check'.equity
       IN  /\ rm.peak_equity = Max(risk_manager.peak_equity, e)
           /\ (/\ rm.peak_equity > 0
               /\ (rm.peak_equity - e) * rm.max_drawdown_pct.den
                     >= rm.max_drawdown_pct.num * rm.peak_equity)
              => (last_check'.result = None /\ rm.stopped_out)
           /\ stdout' = IF ~risk_manager.stopped_out /\ rm.stopped_out
                        THEN stdout + 1 ELSE stdout]_vars

\* a breach vetoed a signal small enough to pass the size cap, and was printed
C9_Witness ==
    /\ last_check # None
    /\ LastCheckBreached
    /\ risk_manager.stopped_out
    /\ stdout = 1
    /\ last_check.result = None
    /\ last_check.signal.quantity * last_check.price * risk_manager.max_position_pct.den
          <= last_check.equity * risk_manager.max_position_pct.num

\* C10: SELL signals bypass the risk filter.  The filter step of a bar whose
\* signal is a SELL enqueues that signal unchanged and leaves the
\* RiskManager (peak, stopped-out flag, limits) as it was.
C10_SellBypass ==
    [][(pc = "risk" /\ signal # None /\ signal.side = "SELL") =>
          /\ pending_signals' = Append(pending_signals, signal)
          /\ risk_manager' = risk_manager
          /\ stdout' = stdout]_vars

\* a SELL was enqueued while the RiskManager was stopped out
C10_Witness ==
    /\ pc = "record"
    /\ risk_manager # None
    /\ risk_manager.stopped_out
    /\ signal # None
    /\ signal.side = "SELL"
    /\ pending_signals = <<signal>>

(***************************************************************************)
(* C11: no partial fills, no rejection.  The step that fetches the next    *)
(* bar adds exactly one fill per queued signal, in queue order, with the   *)
(* signal's side, ticker and quantity, dated one bar after the signal, and *)
(* empties the queue, whatever the cash and the holdings are; no other     *)
(* step adds or removes a fill.                                            *)
(***************************************************************************)
C11_NoRejection ==
    [][IF pc = "fetch" /\ pc' = "on_bar"
       THEN /\ Len(portfolio'.fills) = Len(portfolio.fills) + Len(pending_signals)
            /\ SubSeq(portfolio'.fills, 1, Len(portfolio.fills)) = portfolio.fills
            /\ \A k \in 1..Len(pending_signals) :
                  LET s == pending_signals[k]
                      f == portfolio'.fills[Len(portfolio.fills) + k]
                  IN  /\ f.side = s.side
                      /\ f.ticker = s.ticker
                      /\ f.quantity = s.quantity
                      /\ f.date = s.date + 1
            /\ pending_signals' = <<>>
       ELSE portfolio'.fills = portfolio.fills]_vars

\* a BUY was filled in full with less cash than it costs, and a SELL with
\* nothing held
C11_Witness ==
    /\ pc = "on_bar"
    /\ Len(portfolio.fills) = 2
    /\ portfolio.fills[1].side = "SELL" /\ portfolio.fills[1].date = 2
    /\ portfolio.fills[2].side = "BUY" /\ portfolio.fills[2].date = 3
    /\ portfolio.fills[2].quantity = 8
    /\ portfolio.cash < 0

(***************************************************************************)
(* C12: no same-bar execution.  While the first bar of a run is being      *)
(* processed no fill has been applied and cash is the initial cash, no     *)
(* fill is ever dated with the first bar, and the first point of the       *)
(* equity curve is initial_cash (in particular when the Strategy returned  *)
(* no signal on the first bar).                                            *)
(***************************************************************************)
C12_FirstBar ==
    /\ Fetched <= 1 =>
          /\ portfolio.fills = <<>>
          /\ portfolio.positions = <<>>
          /\ portfolio.cash = portfolio.initial_cash
    /\ \A k \in 1..Len(portfolio.fills) : portfolio.fills[k].date >= 2
    /\ portfolio.equity_curve # <<>> =>
          /\ portfolio.equity_curve[1].date = 1
          /\ portfolio.equity_curve[1].total_equity = portfolio.initial_cash

\* the first iteration has ended without a signal and recorded its point
C12_Witness ==
    /\ pc = "fetch"
    /\ Fetched = 1
    /\ signal = None
    /\ Len(portfolio.equity_curve) = 1

\* the latest direct call was Broker.execute
Executed == returned # None /\ returned.call = "execute"

(***************************************************************************)
(* C13, as claimed: with slippage_pct > 0 and open > 0 the rounded fill    *)
(* price of a BUY is above the open and that of a SELL is below it.        *)
(***************************************************************************)
C13_SlippageStrict ==
    (Executed /\ broker.slippage_pct.num > 0 /\ returned.bar.open > 0) =>
        IF returned.order.side = "BUY"
        THEN returned.value.fill_price > returned.bar.open
        ELSE returned.value.fill_price < returned.bar.open

(***************************************************************************)
(* C13, amended: the fill price is within half a tick of open * (1 +       *)
(* slippage_pct) for a BUY and of open * (1 - slippage_pct) for a SELL, so *)
(* it is never on the trader's side of the open, and it is strictly        *)
(* against the trader when open * slippage_pct is more than half a tick.   *)
(***************************************************************************)
C13_SlippageAfterRounding ==
    (Executed /\ broker.slippage_pct.num > 0 /\ returned.bar.open > 0) =>
        LET open == returned.bar.open
            num == broker.slippage_pct.num
            den == broker.slippage_pct.den
            fill_price == returned.value.fill_price
            buy == returned.order.side = "BUY"
            exact_num == IF buy THEN open * (den + num) ELSE open * (den - num)
        IN  /\ 2 * Abs(fill_price * den - exact_num) <= den
            /\ IF buy THEN fill_price >= open ELSE fill_price <= open
            /\ 2 * open * num > den =>
                  IF buy THEN fill_price > open ELSE fill_price < open

\* a SELL at 0.1500 with the default slippage of 0.001 is filled below the open
C13_Witness ==
    /\ Executed
    /\ broker.slippage_pct = Fraction(1, 1000)
    /\ returned.order.side = "SELL"
    /\ returned.bar.open = 1500
    /\ returned.value.fill_price < 1500

(***************************************************************************)
(* C19, as claimed: the commission is commission_per_share * quantity      *)
(* rounded to a tick and is positive for either side.                      *)
(***************************************************************************)
C19_CommissionPositive ==
    Executed =>
        /\ 2 * Abs(returned.value.commission * broker.commission_per_share.den
                   - broker.commission_per_share.num * returned.order.quantity)
              <= broker.commission_per_share.den
        /\ returned.value.commission > 0

(***************************************************************************)
(* C19, amended: the commission is within half a tick of                   *)
(* commission_per_share * quantity whatever the side, is never negative,   *)
(* and is positive when commission_per_share * quantity is more than half  *)
(* a tick.                                                                 *)
(***************************************************************************)
C19_CommissionNonNegative ==
    Executed =>
        LET num == broker.commission_per_share.num
            den == broker.commission_per_share.den
            quantity == returned.order.quantity
            commission == returned.value.commission
        IN  /\ 2 * Abs(commission * den - num * quantity) <= den
            /\ commission >= 0
            /\ 2 * num * quantity > den => commission > 0
            /\ num = 0 => commission = 0

\* a SELL of 10 shares at the default 50 ticks a share is charged 500 ticks
C19_Witness ==
    /\ Executed
    /\ broker.commission_per_share = Fraction(50, 1)
    /\ returned.order.side = "SELL"
    /\ returned.order.quantity = 10
    /\ returned.value.commission = 500

(***************************************************************************)
(* C14: an empty input is surfaced as a failure before the loop starts, so *)
(* run never returns a Portfolio without having processed a bar.           *)
(***************************************************************************)
C14_EmptyInputFails == pc = "done" => Fetched >= 1

(***************************************************************************)
(* C16: warm-up.  While fewer bars than the slow period have been fetched, *)
(* and so at the end of every run over fewer bars than that, SmaCrossover  *)
(* has returned no signal, the queue is empty, trade_count is 0 and cash   *)
(* is the initial cash, whatever the prices are.                           *)
(***************************************************************************)
C16_WarmUp ==
    Fetched < strategy.slow_period =>
        /\ signal = None
        /\ pending_signals = <<>>
        /\ trade_count(portfolio) = 0
        /\ portfolio.cash = portfolio.initial_cash
        /\ ~strategy.in_position

\* a run over slow_period - 1 = 2 bars with a rising close has returned
C16_Witness ==
    /\ pc = "done"
    /\ strategy.slow_period = 3
    /\ Fetched = 2
    /\ strategy.bars[1].close < strategy.bars[2].close
    /\ trade_count(portfolio) = 0

\* closes that fall from bar 1 to bar m and rise from bar m on; strictly when
\* strict is TRUE, and with bars on both sides of m
VShape(cs, strict) ==
    \E m \in 2..(Len(cs) - 1) :
        /\ \A k \in 1..(m - 1) : IF strict THEN cs[k] > cs[k + 1] ELSE cs[k] >= cs[k + 1]
        /\ \A k \in m..(Len(cs) - 1) : IF strict THEN cs[k] < cs[k + 1] ELSE cs[k] <= cs[k + 1]

\* the fast mean of the first k closes is above the slow mean and was not
\* above it one bar earlier, with slow_period closes behind that earlier bar
UpCross(cs, k) ==
    LET now == SubSeq(cs, 1, k)
        before == SubSeq(cs, 1, k - 1)
    IN  /\ k - 1 >= strategy.slow_period
        /\ MeanLeq(LastN(before, strategy.fast_period), LastN(before, strategy.slow_period))
        /\ MeanLess(LastN(now, strategy.slow_period), LastN(now, strategy.fast_period))

\* the bars of the upward crossovers among the closes the strategy has seen
UpCrosses == {k \in 1..Len(strategy.bars) : UpCross(closes(strategy), k)}

\* the dates of the fills of one side
FillDates(side) ==
    {portfolio.fills[k].date : k \in {j \in 1..Len(portfolio.fills) :
                                          portfolio.fills[j].side = side}}

(***************************************************************************)
(* C17, as claimed: a run over closes that strictly fall and then strictly *)
(* rise through an upward crossover returns with exactly one BUY fill,     *)
(* with one SELL fill too when the rally went on for slow_period bars or   *)
(* more after the crossover, and with trade_count > 0.                     *)
(***************************************************************************)
C17_BuyThenSell ==
    (/\ pc = "done"
     /\ risk_manager = None
     /\ VShape(closes(strategy), TRUE)
     /\ \E k \in UpCrosses : k < Fetched) =>
        /\ Cardinality(FillDates("BUY")) = 1
        /\ (\E k \in UpCrosses : k + strategy.slow_period <= Fetched) =>
              Cardinality(FillDates("SELL")) = 1
        /\ trade_count(portfolio) > 0

(***************************************************************************)
(* C17, amended: over closes that fall and then rise (strictly or not)     *)
(* SmaCrossover never returns a SELL, and the only fill is the BUY of the  *)
(* first upward crossover, on the bar after it; without a RiskManager that *)
(* fill is there, for the strategy's quantity, as soon as the bar after    *)
(* the crossover is fetched, so trade_count is 1 from then on, however     *)
(* long the rally goes on.  A strict fall and rise has one crossover at    *)
(* most.                                                                   *)
(***************************************************************************)
C17_OneBuyNoSell ==
    VShape(closes(strategy), FALSE) =>
        LET first == {k \in UpCrosses : \A j \in UpCrosses : k <= j}
        IN  /\ FillDates("SELL") = {}
            /\ \A k \in 1..Len(pending_signals) : pending_signals[k].side = "BUY"
            /\ FillDates("BUY") \subseteq {k + 1 : k \in first}
            /\ trade_count(portfolio) <= 1
            /\ risk_manager = None =>
                  /\ FillDates("BUY") = {k + 1 : k \in {j \in first : j < Fetched}}
                  /\ \A k \in 1..Len(portfolio.fills) :
                        portfolio.fills[k].quantity = strategy.quantity
            /\ VShape(closes(strategy), TRUE) => Cardinality(UpCrosses) <= 1

\* a run over a strict fall and rise has returned, slow_period bars or more
\* after the crossover, with the BUY as its only fill
C17_Witness ==
    /\ pc = "done"
    /\ risk_manager = None
    /\ VShape(closes(strategy), TRUE)
    /\ \E k \in UpCrosses : k + strategy.slow_period <= Fetched
    /\ trade_count(portfolio) = 1
    /\ portfolio.fills[1].side = "BUY"

\* the derived read-only views of the Portfolio
Views == {"trade_count", "total_return"}

Validated == returned # None /\ returned.call = "_validate"

\* dates strictly increasing, no cell missing, every price above 0
Clean(df) ==
    /\ \A k \in 1..(Len(df) - 1) : df[k].date < df[k + 1].date
    /\ \A k \in 1..Len(df) : \A c \in Columns : ~df[k].cells[c].nan
    /\ \A k \in 1..Len(df) : \A c \in price_cols : df[k].cells[c].v > 0

C21_PerBarOrder ==
    [][/\ pc = "fetch" =>
             \/ /\ pc' = "done"
                /\ portfolio' = portfolio /\ pending_signals' = pending_signals
             \/ /\ pc' = "on_bar"
                /\ bar'.date = Fetched + 1
                /\ Len(portfolio'.fills) = Len(portfolio.fills) + Len(pending_signals)
                /\ \A k \in 1..Len(portfolio'.fills) :
                      IF k <= Len(portfolio.fills)
                      THEN portfolio'.fills[k] = portfolio.fills[k]
                      ELSE portfolio'.fills[k].date = bar'.date
                /\ pending_signals' = <<>>
                /\ strategy' = strategy
                /\ risk_manager' = risk_manager
                /\ portfolio'.equity_curve = portfolio.equity_curve
       /\ pc = "on_bar" =>
             /\ pc' = "risk"
             /\ pending_signals = <<>> /\ pending_signals' = <<>>
             /\ strategy'.bars = Append(strategy.bars, bar)
             /\ Len(strategy'.bars) = bar.date
             /\ signal' # None => signal'.date = bar.date
             /\ portfolio' = portfolio
             /\ risk_manager' = risk_manager
       /\ pc = "risk" =>
             /\ pc' = "record"
             /\ last_check' # last_check =>
                   /\ last_check'.signal = signal
                   /\ last_check'.equity = portfolio.cash
                   /\ last_check'.price = bar.close
                   /\ signal' = last_check'.result
             /\ pending_signals' = IF signal' # None THEN <<signal'>> ELSE <<>>
             /\ strategy' = strategy
             /\ portfolio' = portfolio
             /\ Len(portfolio.equity_curve) = bar.date - 1
       /\ pc = "record" =>
             /\ pc' = "fetch"
             /\ portfolio' = [portfolio EXCEPT !.equity_curve =
                                 Append(@, portfolio'.equity_curve[bar.date])]
             /\ portfolio'.equity_curve[bar.date].date = bar.date
             /\ pending_signals' = pending_signals
             /\ strategy' = strategy
             /\ risk_manager' = risk_manager
       /\ pc # "done"]_vars

\* the check call of the second bar was given the cash left by the fill of
\* that bar, and its signal is queued while the point of the bar is missing
C21_Witness ==
    /\ pc = "record"
    /\ bar.date = 2
    /\ Len(strategy.bars) = 2
    /\ Len(portfolio.fills) = 1 /\ portfolio.fills[1].date = 2
    /\ portfolio.cash # portfolio.initial_cash
    /\ last_check # None
    /\ last_check.signal.date = 2
    /\ last_check.equity = portfolio.cash
    /\ pending_signals = <<signal>>
    /\ Len(portfolio.equity_curve) = 1

\* the check call of the current bar returned None
Vetoed ==
    /\ last_check # None
    /\ last_check.signal.date = bar.date
    /\ last_check.result = None

(***************************************************************************)
(* C22: a risk veto is a normal outcome.  The risk step whose check call   *)
(* returns None for the BUY signal of bar T drops the signal, enqueues     *)
(* nothing and leaves the ledger alone; the record step of bar T follows   *)
(* and adds the point of bar T from the unchanged cash and holdings; the   *)
(* run then returns or goes on to bar T+1, whose fetch adds no fill and    *)
(* leaves cash and positions unchanged.                                    *)
(***************************************************************************)
C22_RiskVeto ==
    [][/\ (pc = "risk" /\ last_check' # last_check /\ last_check'.result = None) =>
             /\ last_check'.signal = signal
             /\ signal.side = "BUY"
             /\ signal' = None
             /\ pending_signals' = <<>>
             /\ portfolio' = portfolio
             /\ pc' = "record"
       /\ (pc = "record" /\ Vetoed) =>
             /\ pc' = "fetch"
             /\ pending_signals' = <<>>
             /\ portfolio' = [portfolio EXCEPT !.equity_curve =
                   Append(@, [date |-> bar.date,
                              total_equity |-> portfolio.cash
                                  + (IF Held > 0 THEN Held * bar.close ELSE 0)])]
       /\ (pc = "fetch" /\ Vetoed) =>
             \/ pc' = "done" /\ portfolio' = portfolio
             \/ /\ pc' = "on_bar"
                /\ bar'.date = bar.date + 1
                /\ portfolio' = portfolio]_vars

\* a run of three bars has returned: the signal of bar 1 was filled on bar 2,
\* the BUY of bar 2 was vetoed and bar 3 was processed without a fill
C22_Witness ==
    /\ pc = "done"
    /\ Fetched = 3
    /\ last_check # None
    /\ last_check.signal.date = 2
    /\ last_check.result = None
    /\ Len(portfolio.fills) = 1
    /\ portfolio.fills[1].date = 2
    /\ Len(portfolio.equity_curve) = 3

\* the shares of ticker t held after the first k fills
RECURSIVE HeldAfter(_, _, _)
HeldAfter(fills, t, k) ==
    IF k = 0 THEN 0
    ELSE HeldAfter(fills, t, k - 1)
         + (IF fills[k].ticker # t THEN 0
            ELSE IF fills[k].side = "BUY" THEN fills[k].quantity ELSE -fills[k].quantity)

\* no SELL among the fills sold more of t than was held
NeverOversold(fills, t) == \A k \in 1..Len(fills) : HeldAfter(fills, t, k) >= 0

\* the number of fills after which t was last flat
LastFlat(fills, t) ==
    CHOOSE k \in 0..Len(fills) :
        /\ HeldAfter(fills, t, k) = 0
        /\ \A j \in (k + 1)..Len(fills) : HeldAfter(fills, t, j) # 0

\* the fills of t of one side since it was last flat
SinceFlat(fills, t, side) ==
    {k \in (LastFlat(fills, t) + 1)..Len(fills) : fills[k].ticker = t /\ fills[k].side = side}

\* total quantity and total price * quantity of the fills at the places ks
RECURSIVE FilledQuantity(_, _)
FilledQuantity(fills, ks) ==
    IF ks = {} THEN 0
    ELSE LET k == CHOOSE x \in ks : TRUE
         IN  fills[k].quantity + FilledQuantity(fills, ks \ {k})

RECURSIVE FilledValue(_, _)
FilledValue(fills, ks) ==
    IF ks = {} THEN 0
    ELSE LET k == CHOOSE x \in ks : TRUE
         IN  fills[k].fill_price * fills[k].quantity + FilledValue(fills, ks \ {k})

\* the position of ticker t in portfolio p (a fresh one before its first fill)
PositionOf(p, t) == IF t \in DOMAIN p.positions THEN p.positions[t] ELSE Position(t)

(***************************************************************************)
(* C23, as claimed: after a fill of a sequence that never sold more than   *)
(* was held, avg_cost is 0 when the quantity is 0, is otherwise the        *)
(* quantity-weighted average fill price of the BUYs since the position was *)
(* last flat, and is unchanged by a partial SELL.                          *)
(***************************************************************************)
C23_AverageOfBuys ==
    [][LET fills == portfolio'.fills
           f == fills[Len(fills)]
           old == PositionOf(portfolio, f.ticker)
           new == PositionOf(portfolio', f.ticker)
           buys == SinceFlat(fills, f.ticker, "BUY")
       IN  NeverOversold(fills, f.ticker) =>
              /\ new.quantity = 0 => new.avg_cost = Fraction(0, 1)
              /\ new.quantity > 0 =>
                    new.avg_cost.num * FilledQuantity(fills, buys)
                       = FilledValue(fills, buys) * new.avg_cost.den
              /\ (f.side = "SELL" /\ new.quantity > 0) => new.avg_cost = old.avg_cost]_vars

(***************************************************************************)
(* C23, amended: after a fill of a sequence that never sold more than was  *)
(* held, avg_cost is 0 when the quantity is 0 and is unchanged by a        *)
(* partial SELL; a BUY of q at p on Q shares of average cost a gives       *)
(* (a*Q + p*q) / (Q + q); so avg_cost is the quantity-weighted average     *)
(* fill price of the BUYs since the position was last flat as long as no   *)
(* SELL came between them.                                                 *)
(***************************************************************************)
C23_AverageCost ==
    [][LET fills == portfolio'.fills
           f == fills[Len(fills)]
           old == PositionOf(portfolio, f.ticker)
           new == PositionOf(portfolio', f.ticker)
           buys == SinceFlat(fills, f.ticker, "BUY")
       IN  NeverOversold(fills, f.ticker) =>
              /\ new.quantity = 0 => new.avg_cost = Fraction(0, 1)
              /\ f.side = "BUY" =>
                    /\ new.quantity = old.quantity + f.quantity
                    /\ new.avg_cost.den > 0
                    /\ new.avg_cost.num * new.quantity * old.avg_cost.den
                          = (old.avg_cost.num * old.quantity
                             + f.fill_price * f.quantity * old.avg_cost.den) * new.avg_cost.den
              /\ (new.quantity > 0 /\ SinceFlat(fills, f.ticker, "SELL") = {}) =>
                    new.avg_cost.num * FilledQuantity(fills, buys)
                       = FilledValue(fills, buys) * new.avg_cost.den
              /\ (f.side = "SELL" /\ new.quantity > 0) => new.avg_cost = old.avg_cost]_vars

\* two BUYs at different prices, a partial SELL and a SELL that closes the
\* position: avg_cost was 2 after the BUYs and the partial SELL, and is 0 now
C23_Witness ==
    /\ Len(portfolio.fills) = 4
    /\ portfolio.fills[1].side = "BUY" /\ portfolio.fills[1].fill_price = 1
    /\ portfolio.fills[1].quantity = 2
    /\ portfolio.fills[2].side = "BUY" /\ portfolio.fills[2].fill_price = 3
    /\ portfolio.fills[2].quantity = 2
    /\ portfolio.fills[3].side = "SELL" /\ portfolio.fills[3].quantity = 1
    /\ portfolio.fills[4].side = "SELL" /\ portfolio.fills[4].quantity = 3
    /\ portfolio.positions["A"].quantity = 0
    /\ portfolio.positions["A"].avg_cost = Fraction(0, 1)

(***************************************************************************)
(* C24: an unmatched SELL is not defended against.  A process_fill call    *)
(* with a SELL fill for more shares than the position holds (none, for a   *)
(* ticker without a position) appends the fill, so trade_count grows by    *)
(* one, leaves the quantity at held - sold, below 0, and adds              *)
(* fill_price * quantity - commission to cash.                             *)
(***************************************************************************)
C24_UnmatchedSell ==
    [][(returned' # None /\ returned'.call = "process_fill") =>
          /\ Len(portfolio'.fills) = Len(portfolio.fills) + 1
          /\ LET f == portfolio'.fills[Len(portfolio'.fills)]
                 old == PositionOf(portfolio, f.ticker)
                 new == PositionOf(portfolio', f.ticker)
             IN  (f.side = "SELL" /\ f.quantity > old.quantity) =>
                    /\ new.quantity = old.quantity - f.quantity
                    /\ new.quantity < 0
                    /\ portfolio'.cash
                          = portfolio.cash + f.fill_price * f.quantity - f.commission
                    /\ portfolio'.fills = Append(portfolio.fills, f)
                    /\ trade_count(portfolio') = trade_count(portfolio) + 1]_vars

\* after a BUY of 3 shares a SELL of 8 shares of the same ticker, with a
\* commission, has been applied: -5 shares are held
C24_Witness ==
    /\ Len(portfolio.fills) = 2
    /\ portfolio.fills[1].side = "BUY" /\ portfolio.fills[1].quantity = 3
    /\ portfolio.fills[2].side = "SELL" /\ portfolio.fills[2].quantity = 8
    /\ portfolio.fills[2].commission = 2
    /\ portfolio.fills[2].ticker = portfolio.fills[1].ticker
    /\ portfolio.positions[portfolio.fills[2].ticker].quantity = -5

\* what RiskManager.check does with the cash of the ledger as its equity
\* and the close of the current bar as its price: the peak moves to the
\* larger of itself and the cash, a drawdown of the cash from that peak of
\* max_drawdown_pct or more vetoes, and otherwise the size is capped at
\* cash * max_position_pct
CheckedOnCash ==
    LET rm == risk_manager'
        cash == portfolio.cash
        lim == rm.max_position_pct
        floor == (cash * lim.num) \div (lim.den * bar.close)
        result == last_check'.result
    IN  /\ last_check'.equity = cash
        /\ last_check'.price = bar.close
        /\ rm.peak_equity = Max(risk_manager.peak_equity, cash)
        /\ IF /\ rm.peak_equity > 0
              /\ (rm.peak_equity - cash) * rm.max_drawdown_pct.den
                    >= rm.max_drawdown_pct.num * rm.peak_equity
           THEN result = None
           ELSE IF signal.quantity * bar.close * lim.den > cash * lim.num
           THEN IF floor <= 0 THEN result = None
                ELSE result # None /\ result.quantity = floor
           ELSE result = signal

\* the check call of the current bar, if any, was given the cash as equity
CheckedThisBar == last_check # None /\ last_check.signal.date = bar.date

(***************************************************************************)
(* C25, as claimed: the check call of bar T is given the cash left by the  *)
(* executions of bar T as equity and the close of bar T as price, so the   *)
(* peak, the drawdown test and the size cap are computed from cash; and    *)
(* the equity passed differs from the point recorded for bar T whenever    *)
(* the quantity held is not 0.                                             *)
(***************************************************************************)
C25_CashDiffersWhenNonZero ==
    [][/\ (pc = "risk" /\ last_check' # last_check) => CheckedOnCash
       /\ (pc = "record" /\ CheckedThisBar) =>
             /\ last_check.equity = portfolio.cash
             /\ Held # 0 =>
                   portfolio'.equity_curve[bar.date].total_equity # last_check.equity]_vars

(***************************************************************************)
(* C25, amended: the check call of bar T is given the cash left by the     *)
(* executions of bar T as equity and the close of bar T as price, so the   *)
(* peak, the drawdown test and the size cap are computed from cash; the    *)
(* point recorded for bar T exceeds the equity passed by quantity * close  *)
(* when the quantity held is positive and equals it when the quantity is   *)
(* zero or negative.                                                       *)
(***************************************************************************)
C25_CashDiffersWhenPositive ==
    [][/\ (pc = "risk" /\ last_check' # last_check) => CheckedOnCash
       /\ (pc = "record" /\ CheckedThisBar) =>
             /\ last_check.equity = portfolio.cash
             /\ portfolio'.equity_curve[bar.date].total_equity
                   = last_check.equity + (IF Held > 0 THEN Held * bar.close ELSE 0)]_vars

\* the BUY of bar 2 was checked against the cash while shares were held, and
\* the point of bar 2 is above that cash
C25_Witness ==
    /\ pc = "fetch"
    /\ CheckedThisBar
    /\ bar.date = 2
    /\ Held > 0
    /\ last_check.equity = portfolio.cash
    /\ last_check.result # None
    /\ LastPoint.total_equity = portfolio.cash + Held * bar.close

\* the check call recorded in lc vetoed its signal or made it smaller
Cut(lc) == lc.result = None \/ lc.result.quantity < lc.signal.quantity

(***************************************************************************)
(* C26: a veto or a resize is not fed back to SmaCrossover.  on_bar sets   *)
(* the in-position flag on the step that returns a BUY, returns a BUY only *)
(* while the flag is clear and a SELL only while it is set, each for the   *)
(* configured quantity; no other step changes the strategy, so when check  *)
(* vetoes or resizes the BUY the flag is set and stays set until on_bar    *)
(* returns the next SELL; that SELL is enqueued as it is, and the next     *)
(* fetch fills it for the configured quantity, whatever is held.           *)
(***************************************************************************)
C26_NoFeedback ==
    [][/\ pc = "on_bar" =>
             \/ /\ signal' = None
                /\ strategy'.in_position = strategy.in_position
             \/ /\ signal' # None
                /\ signal'.quantity = strategy.quantity
                /\ strategy.in_position = (signal'.side = "SELL")
                /\ strategy'.in_position = (signal'.side = "BUY")
       /\ pc # "on_bar" => strategy' = strategy
       /\ (pc = "risk" /\ last_check' # last_check /\ Cut(last_check')) =>
             /\ last_check'.signal.quantity = strategy.quantity
             /\ strategy'.in_position
       /\ (pc = "risk" /\ signal # None /\ signal.side = "SELL") =>
             pending_signals' = <<signal>>
       /\ (pc = "fetch" /\ pc' = "on_bar" /\ pending_signals # <<>>
              /\ pending_signals[1].side = "SELL") =>
             /\ Len(portfolio'.fills) = Len(portfolio.fills) + 1
             /\ portfolio'.fills[Len(portfolio'.fills)].side = "SELL"
             /\ portfolio'.fills[Len(portfolio'.fills)].quantity = strategy.quantity
             /\ PositionOf(portfolio', strategy.ticker).quantity
                   = Held - strategy.quantity]_vars

\* the second BUY was vetoed on bar 5, no BUY followed, and the SELL of bar 6
\* was filled on bar 7 for the 3 configured shares with nothing held
C26_Witness ==
    /\ pc = "on_bar"
    /\ bar.date = 7
    /\ last_check # None
    /\ last_check.signal.date = 5
    /\ last_check.result = None
    /\ Len(portfolio.fills) = 3
    /\ portfolio.fills[2].side = "SELL"
    /\ portfolio.fills[3].side = "SELL"
    /\ portfolio.fills[3].date = 7
    /\ portfolio.fills[3].quantity = strategy.quantity
    /\ Held = -strategy.quantity

(***************************************************************************)
(* C27: a signal that survives the risk filter on the last bar is never    *)
(* executed.  Every signal that was enqueued is either filled or still in  *)
(* the queue, the queue holds nothing but the surviving signal of the      *)
(* current bar, and no fill is dated after the current bar; so when run    *)
(* has returned after N bars the signal of bar N, if it survived, is in    *)
(* the queue without a fill, and trade_count is the number of signals      *)
(* enqueued on the bars before bar N.                                      *)
(***************************************************************************)
C27_LastBarSignal ==
    /\ trade_count(portfolio) + Len(pending_signals) = enqueued
    /\ \A k \in 1..Len(portfolio.fills) : portfolio.fills[k].date <= Fetched
    /\ \A k \in 1..Len(pending_signals) : pending_signals[k].date = Fetched
    /\ pc = "done" =>
          /\ pending_signals = IF signal # None THEN <<signal>> ELSE <<>>
          /\ signal # None =>
                /\ signal.date = Fetched
                /\ \A k \in 1..Len(portfolio.fills) : portfolio.fills[k].date <= signal.date
                /\ trade_count(portfolio) = enqueued - 1

\* a run of three bars has returned with the BUY that passed the check of
\* bar 3 in the queue and one fill, of a signal of an earlier bar
C27_Witness ==
    /\ pc = "done"
    /\ Fetched = 3
    /\ last_check # None
    /\ last_check.signal.date = 3
    /\ last_check.result # None
    /\ pending_signals = <<last_check.result>>
    /\ enqueued = 2
    /\ trade_count(portfolio) = 1

(***************************************************************************)
(* C28: pending-queue bound.  In a run of a fresh Engine the queue is      *)
(* empty from the execution step of a bar until the risk step of that bar, *)
(* and holds one signal at most, a signal of the current bar, in every     *)
(* other state; so no two fills have the same date and the dates of the    *)
(* fills are in non-decreasing order.                                      *)
(***************************************************************************)
C28_QueueBound ==
    /\ pc \in {"on_bar", "risk"} => pending_signals = <<>>
    /\ Len(pending_signals) <= 1
    /\ \A k \in 1..Len(pending_signals) : pending_signals[k].date = bar.date
    /\ \A j, k \in 1..Len(portfolio.fills) :
          /\ j < k => portfolio.fills[j].date <= portfolio.fills[k].date
          /\ j # k => portfolio.fills[j].date # portfolio.fills[k].date

\* the third iteration has ended with a signal in the queue, after a fill on
\* bar 2 and a fill on bar 3
C28_Witness ==
    /\ pc = "fetch"
    /\ Fetched = 3
    /\ Len(pending_signals) = 1
    /\ Len(portfolio.fills) = 2
    /\ portfolio.fills[1].date = 2
    /\ portfolio.fills[2].date = 3

\* side and quantity of the signals on_bar has returned so far in a run
\* without a RiskManager, oldest first: those filled, the one in the queue,
\* and the one of the current bar before the risk step enqueues it
Emitted ==
    [k \in 1..Len(portfolio.fills) |->
        [side |-> portfolio.fills[k].side, quantity |-> portfolio.fills[k].quantity]]
    \o [k \in 1..Len(pending_signals) |->
        [side |-> pending_signals[k].side, quantity |-> pending_signals[k].quantity]]
    \o (IF pc = "risk" /\ signal # None
        THEN <<[side |-> signal.side, quantity |-> signal.quantity]>> ELSE <<>>)

(***************************************************************************)
(* C29: the signals of SmaCrossover alternate.  In a run without a         *)
(* RiskManager, where every signal returned is enqueued and filled as it   *)
(* is, the signals returned so far are BUY, SELL, BUY, ... starting with a *)
(* BUY, each for the configured quantity q; the in-position flag is set    *)
(* exactly when the latest of them is a BUY; and the quantity held is 0 or *)
(* q.                                                                      *)
(***************************************************************************)
C29_Alternation ==
    risk_manager = None =>
        /\ \A k \in 1..Len(Emitted) :
              /\ Emitted[k].side = IF k % 2 = 1 THEN "BUY" ELSE "SELL"
              /\ Emitted[k].quantity = strategy.quantity
        /\ strategy.in_position = (Len(Emitted) % 2 = 1)
        /\ Held \in {0, strategy.quantity}
        /\ Held = IF Len(portfolio.fills) % 2 = 1 THEN strategy.quantity ELSE 0

\* two round trips have been filled in a run without a RiskManager
C29_Witness ==
    /\ risk_manager = None
    /\ pc = "on_bar"
    /\ Len(portfolio.fills) = 4
    /\ portfolio.fills[3].side = "BUY"
    /\ portfolio.fills[4].side = "SELL"
    /\ Held = 0

(***************************************************************************)
(* C30: check never increases a signal.  A signal returned by a check call *)
(* has the date, the ticker and the side of the signal passed in and a     *)
(* quantity that is not larger; when the quantity differs it is at least 1 *)
(* and less than the one passed in, and quantity * price is within equity  *)
(* * max_position_pct.                                                     *)
(***************************************************************************)
C30_NeverIncreases ==
    (last_check # None /\ last_check.result # None) =>
        LET s == last_check.signal
            r == last_check.result
            lim == risk_manager.max_position_pct
        IN  /\ r.date = s.date
            /\ r.ticker = s.ticker
            /\ r.side = s.side
            /\ r.quantity <= s.quantity
            /\ r # s =>
                  /\ r.quantity >= 1
                  /\ r.quantity < s.quantity
                  /\ r.quantity * last_check.price * lim.den <= last_check.equity * lim.num

\* a SELL of 8 at a price of 3 against 10% of an equity of 100 comes back as
\* a SELL of 3
C30_Witness ==
    /\ last_check # None
    /\ last_check.signal.side = "SELL"
    /\ last_check.signal.quantity = 8
    /\ last_check.equity = 100
    /\ last_check.price = 3
    /\ risk_manager.max_position_pct = Fraction(1, 10)
    /\ last_check.result = Signal(1, "A", "SELL", 3)

====
